---- MODULE Spec2Model ----
(***************************************************************************)
(* The tree-walking evaluator of monkey/evaluator.py over the value model  *)
(* of monkey/object.py.                                                    *)
(*                                                                         *)
(* Eval is translated rule by rule as recursive operators that thread the  *)
(* heap of environments; the statement loop of evalProgram is the state    *)
(* machine: one step per iteration of its for loop.                        *)
(*                                                                         *)
(* A Python exception raised by the host is a value of class "Exception"   *)
(* that every rule passes on unchanged, as the interpreter unwinds.        *)
(***************************************************************************)
EXTENDS Integers, Sequences, FiniteSets, TLC

VARIABLES program, envs, idx, result, status, retval

vars == <<program, envs, idx, result, status, retval>>

(***************************************************************************)
(* Bounds of the model.                                                    *)
(***************************************************************************)
MaxStmts == 4

(***************************************************************************)
(* object.py: the type tags.                                               *)
(***************************************************************************)
INTEGER_OBJ == "INTEGER"
BOOLEAN_OBJ == "BOOLEAN"
NULL_OBJ == "NULL"
RETURN_VALUE_OBJ == "RETURN_VALUE"
ERROR_OBJ == "ERROR"
FUNCTION_OBJ == "FUNCTION"

(***************************************************************************)
(* Numbers.  Python's `/` on two ints is true division, so an Integer's    *)
(* Value may be a non-integral number: a Value is a fraction <<n, d>> in   *)
(* lowest terms with d > 0 (the rounding of a float is not modelled).       *)
(***************************************************************************)
Abs(n) == IF n < 0 THEN -n ELSE n

RECURSIVE Gcd(_, _)
Gcd(a, b) == IF b = 0 THEN a ELSE Gcd(b, a % b)

Frac(n, d) ==
    LET g == Gcd(Abs(n), Abs(d))
        s == IF d < 0 THEN -1 ELSE 1
    IN  <<(s * n) \div g, (s * d) \div g>>

Num(n) == <<n, 1>>

NumAdd(a, b) == Frac(a[1] * b[2] + b[1] * a[2], a[2] * b[2])
NumSub(a, b) == Frac(a[1] * b[2] - b[1] * a[2], a[2] * b[2])
NumMul(a, b) == Frac(a[1] * b[1], a[2] * b[2])
NumDiv(a, b) == Frac(a[1] * b[2], a[2] * b[1])
NumNeg(a) == <<-a[1], a[2]>>
NumLt(a, b) == a[1] * b[2] < b[1] * a[2]
IsZero(a) == a[1] = 0

(***************************************************************************)
(* object.py: the objects.  cls is the Python class of the object.         *)
(***************************************************************************)
None == [cls |-> "NoneType"]
Integer(v) == [cls |-> "Integer", Value |-> v]
Boolean(b) == [cls |-> "Boolean", Value |-> b]
Null == [cls |-> "Null"]
ReturnValue(v) == [cls |-> "ReturnValue", Value |-> v]
Error(m) == [cls |-> "Error", Message |-> m]
Function(params, env, body) ==
    [cls |-> "Function", Parameters |-> params, Body |-> body, Env |-> env]
AnyObject(v) == [cls |-> "AnyObject", Value |-> v]

\* A raised Python exception, and a local variable not yet assigned.
Exception(name) == [cls |-> "Exception", name |-> name]
Unbound == [cls |-> "Unbound"]

IsExc(v) == v.cls = "Exception"

\* obj.Type.TypeName; AnyObject answers with the type of what it wraps.
RECURSIVE TypeName(_)
TypeName(obj) ==
    CASE obj.cls = "Integer" -> INTEGER_OBJ
      [] obj.cls = "Boolean" -> BOOLEAN_OBJ
      [] obj.cls = "Null" -> NULL_OBJ
      [] obj.cls = "ReturnValue" -> RETURN_VALUE_OBJ
      [] obj.cls = "Error" -> ERROR_OBJ
      [] obj.cls = "Function" -> FUNCTION_OBJ
      [] obj.cls = "AnyObject" -> TypeName(obj.Value)

\* Python's truth value of an object or None: no class defines __bool__ or
\* __len__, so every object is true and only None is false.
Truthy(v) == v.cls # "NoneType"

\* The == the dataclasses generate: objects of one class compare by their
\* fields, objects of different classes are unequal.
RECURSIVE PyEq(_, _)
PyEq(a, b) ==
    IF a.cls # b.cls THEN FALSE
    ELSE IF a.cls \in {"ReturnValue", "AnyObject"} THEN PyEq(a.Value, b.Value)
    ELSE a = b

(***************************************************************************)
(* evaluator.py: the singletons.                                           *)
(***************************************************************************)
NULL == Null
TrueObj == Boolean(TRUE)
FalseObj == Boolean(FALSE)

(***************************************************************************)
(* The AST nodes the evaluator reads (monkey/ast.py is not among the       *)
(* sources; the fields are those evaluator.py uses).                       *)
(***************************************************************************)
IntegerLiteral(n) == [node |-> "IntegerLiteral", Value |-> n]
BooleanLiteral(b) == [node |-> "Boolean", Value |-> b]
Identifier(name) == [node |-> "Identifier", Value |-> name]
PrefixExpression(op, right) ==
    [node |-> "PrefixExpression", Operator |-> op, Right |-> right]
InfixExpression(left, op, right) ==
    [node |-> "InfixExpression", Operator |-> op, Left |-> left, Right |-> right]
BlockStatement(stmts) == [node |-> "BlockStatement", Statements |-> stmts]
NoNode == [node |-> "None"]
IfExpression(cond, cons, alt) ==
    [node |-> "IfExpression", Condition |-> cond, Consequence |-> cons,
     Alternative |-> alt]
FunctionLiteral(params, body) ==
    [node |-> "FunctionLiteral", Parameters |-> params, Body |-> body]
CallExpression(fn, args) ==
    [node |-> "CallExpression", Function |-> fn, Arguments |-> args]
ExpressionStatement(e) == [node |-> "ExpressionStatement", ExpressionValue |-> e]
ReturnStatement(e) == [node |-> "ReturnStatement", ReturnValue |-> e]
LetStatement(name, e) == [node |-> "LetStatement", Name |-> name, Value |-> e]

(***************************************************************************)
(* monkey/environment.py is not among the sources: the environment is      *)
(* modelled from the specification.  The heap h is a sequence of           *)
(* environments; an environment is named by its index, outer = 0 is none.  *)
(***************************************************************************)
EmptyStore == [n \in {} |-> None]

NewEnvironment == [store |-> EmptyStore, outer |-> 0]

NewEnclosedEnvironment(h, outer) == Append(h, [store |-> EmptyStore, outer |-> outer])

RECURSIVE Get(_, _, _)
Get(h, e, name) ==
    IF name \in DOMAIN h[e].store THEN h[e].store[name]
    ELSE IF h[e].outer # 0 THEN Get(h, h[e].outer, name)
    ELSE None

Set(h, e, name, val) ==
    [h EXCEPT ![e].store =
        [n \in (DOMAIN h[e].store) \cup {name} |->
            IF n = name THEN val ELSE h[e].store[n]]]

(***************************************************************************)
(* evaluator.py: the helpers that evaluate nothing themselves.             *)
(***************************************************************************)
isError(obj) ==
    IF obj.cls # "NoneType" THEN TypeName(obj) = ERROR_OBJ ELSE FALSE

\* A truthiness under which the Integer 0 is false.
isTruthy_ZeroIsFalse(obj) ==
    IF PyEq(obj, NULL) THEN FALSE
    ELSE IF PyEq(obj, TrueObj) THEN TRUE
    ELSE IF PyEq(obj, FalseObj) THEN FALSE
    ELSE IF obj.cls = "Integer" THEN ~IsZero(obj.Value)
    ELSE TRUE

isTruthy(obj) ==
    IF PyEq(obj, NULL) THEN FALSE
    ELSE IF PyEq(obj, TrueObj) THEN TRUE
    ELSE IF PyEq(obj, FalseObj) THEN FALSE
    ELSE TRUE

nativeBoolToBooleanObject(input) == IF input THEN TrueObj ELSE FalseObj

newError(message) == Error(message)

unwrapReturnValue(obj) ==
    IF obj.cls = "ReturnValue" THEN obj.Value ELSE obj

evalBangOperatorExpression(right) ==
    IF PyEq(right, TrueObj) THEN FalseObj
    ELSE IF PyEq(right, FalseObj) THEN TrueObj
    ELSE IF PyEq(right, NULL) THEN TrueObj
    ELSE FalseObj

evalMinusPrefixOperatorExpression(right) ==
    IF ~Truthy(right) THEN NULL
    ELSE IF TypeName(right) # INTEGER_OBJ
    THEN newError("unknown operator: -" \o TypeName(right))
    ELSE Integer(NumNeg(right.Value))

evalPrefixExpression(operator, right) ==
    IF operator = "!" THEN evalBangOperatorExpression(right)
    ELSE IF operator = "-" THEN evalMinusPrefixOperatorExpression(right)
    ELSE newError("unknown operator: " \o operator \o TypeName(right))

\* leftVal / rightVal raises ZeroDivisionError when rightVal is 0.
evalIntegerInfixExpression(operator, left, right) ==
    LET leftVal == left.Value
        rightVal == right.Value
    IN  IF operator = "+" THEN Integer(NumAdd(leftVal, rightVal))
        ELSE IF operator = "-" THEN Integer(NumSub(leftVal, rightVal))
        ELSE IF operator = "*" THEN Integer(NumMul(leftVal, rightVal))
        ELSE IF operator = "/"
        THEN IF IsZero(rightVal) THEN Exception("ZeroDivisionError")
             ELSE Integer(NumDiv(leftVal, rightVal))
        ELSE IF operator = "<" THEN nativeBoolToBooleanObject(NumLt(leftVal, rightVal))
        ELSE IF operator = ">" THEN nativeBoolToBooleanObject(NumLt(rightVal, leftVal))
        ELSE IF operator = "==" THEN nativeBoolToBooleanObject(leftVal = rightVal)
        ELSE IF operator = "!=" THEN nativeBoolToBooleanObject(leftVal # rightVal)
        ELSE newError("unknown operator: " \o TypeName(left) \o " " \o operator
                      \o " " \o TypeName(right))

\* The type-mismatch test made before the == and != tests.
evalInfixExpression_MismatchFirst(operator, left, right) ==
    IF TypeName(left) = INTEGER_OBJ /\ TypeName(right) = INTEGER_OBJ
    THEN evalIntegerInfixExpression(operator, left, right)
    ELSE IF TypeName(left) # TypeName(right)
    THEN newError("type mismatch: " \o TypeName(left) \o " " \o operator
                  \o " " \o TypeName(right))
    ELSE IF operator = "==" THEN nativeBoolToBooleanObject(PyEq(left, right))
    ELSE IF operator = "!=" THEN nativeBoolToBooleanObject(~PyEq(left, right))
    ELSE newError("unknown operator: " \o TypeName(left) \o " " \o operator
                  \o " " \o TypeName(right))

evalInfixExpression(operator, left, right) ==
    IF TypeName(left) = INTEGER_OBJ /\ TypeName(right) = INTEGER_OBJ
    THEN evalIntegerInfixExpression(operator, left, right)
    ELSE IF operator = "==" THEN nativeBoolToBooleanObject(PyEq(left, right))
    ELSE IF operator = "!=" THEN nativeBoolToBooleanObject(~PyEq(left, right))
    ELSE IF TypeName(left) # TypeName(right)
    THEN newError("type mismatch: " \o TypeName(left) \o " " \o operator
                  \o " " \o TypeName(right))
    ELSE newError("unknown operator: " \o TypeName(left) \o " " \o operator
                  \o " " \o TypeName(right))

\* The outcome of an evaluation: the value (or None, or the exception raised)
\* and the heap it leaves.
Out(v, h) == [val |-> v, envs |-> h]

evalIdentifier(node, e, h) ==
    LET val == Get(h, e, node.Value)
    IN  IF ~Truthy(val)
        THEN Out(newError("identifier not found: " \o node.Value), h)
        ELSE Out(val, h)

\* fn.Env raises AttributeError on an object that is no Function, and
\* args[paramIdx] raises IndexError past the end of args.
RECURSIVE BindParameters(_, _, _, _, _)
BindParameters(h, env, params, args, paramIdx) ==
    IF paramIdx > Len(params) THEN [exc |-> None, env |-> env, envs |-> h]
    ELSE IF paramIdx > Len(args)
    THEN [exc |-> Exception("IndexError"), env |-> env, envs |-> h]
    ELSE BindParameters(Set(h, env, params[paramIdx], args[paramIdx]),
                        env, params, args, paramIdx + 1)

extendFunctionEnv(fn, args, h) ==
    IF fn.cls # "Function"
    THEN [exc |-> Exception("AttributeError"), env |-> 0, envs |-> h]
    ELSE LET h1 == NewEnclosedEnvironment(h, fn.Env)
         IN  BindParameters(h1, Len(h1), fn.Parameters, args, 1)

\* A function literal that captures the root environment, not the current one.
Eval_FunctionLiteral_CapturesRoot(node, e, h) ==
    Out(Function(node.Parameters, 1, node.Body), h)

Eval_FunctionLiteral(node, e, h) ==
    Out(Function(node.Parameters, e, node.Body), h)

(***************************************************************************)
(* evaluator.py: Eval and the rules that recurse through it.               *)
(***************************************************************************)
RECURSIVE Eval(_, _, _)
RECURSIVE BlockLoop(_, _, _, _, _)
RECURSIVE ExpressionsLoop(_, _, _, _, _)

Eval_PrefixExpression(node, e, h) ==
    LET right == Eval(node.Right, e, h)
    IN  IF IsExc(right.val) THEN right
        ELSE IF Truthy(right.val)
        THEN IF isError(right.val) THEN right
             ELSE Out(evalPrefixExpression(node.Operator, right.val), right.envs)
        ELSE Out(None, right.envs)

\* Both operands evaluated before either is looked at.
Eval_InfixExpression_Eager(node, e, h) ==
    LET left == Eval(node.Left, e, h)
        right == Eval(node.Right, e, left.envs)
    IN  IF IsExc(left.val) THEN left
        ELSE IF ~Truthy(left.val) THEN Out(None, right.envs)
        ELSE IF isError(left.val) THEN Out(left.val, right.envs)
        ELSE IF IsExc(right.val) THEN right
        ELSE IF ~Truthy(right.val) THEN Out(None, right.envs)
        ELSE IF isError(right.val) THEN right
        ELSE Out(evalInfixExpression(node.Operator, left.val, right.val),
                 right.envs)

Eval_InfixExpression(node, e, h) ==
    LET left == Eval(node.Left, e, h)
    IN  IF IsExc(left.val) THEN left
        ELSE IF ~Truthy(left.val) THEN Out(None, left.envs)
        ELSE IF isError(left.val) THEN left
        ELSE LET right == Eval(node.Right, e, left.envs)
             IN  IF IsExc(right.val) THEN right
                 ELSE IF ~Truthy(right.val) THEN Out(None, right.envs)
                 ELSE IF isError(right.val) THEN right
                 ELSE Out(evalInfixExpression(node.Operator, left.val, right.val),
                          right.envs)

Eval_ReturnStatement(node, e, h) ==
    LET val == Eval(node.ReturnValue, e, h)
    IN  IF IsExc(val.val) THEN val
        ELSE IF Truthy(val.val)
        THEN IF isError(val.val) THEN val
             ELSE Out(ReturnValue(val.val), val.envs)
        ELSE Out(None, val.envs)

\* A let statement that binds the name before it looks for an Error.
Eval_LetStatement_BindsFirst(node, e, h) ==
    LET val == Eval(node.Value, e, h)
    IN  IF IsExc(val.val) THEN val
        ELSE IF Truthy(val.val)
        THEN IF isError(val.val)
             THEN Out(val.val, Set(val.envs, e, node.Name, val.val))
             ELSE Out(None, Set(val.envs, e, node.Name, val.val))
        ELSE Out(None, val.envs)

Eval_LetStatement(node, e, h) ==
    LET val == Eval(node.Value, e, h)
    IN  IF IsExc(val.val) THEN val
        ELSE IF Truthy(val.val)
        THEN IF isError(val.val) THEN val
             ELSE Out(None, Set(val.envs, e, node.Name, val.val))
        ELSE Out(None, val.envs)

\* The for loop of evalBlockStatement from statement i on; result is the
\* local of that name, Unbound until the first assignment.
BlockLoop(stmts, i, res, e, h) ==
    IF i > Len(stmts)
    THEN IF res.cls = "Unbound" THEN Out(Exception("UnboundLocalError"), h)
         ELSE Out(res, h)
    ELSE LET r == Eval(stmts[i], e, h)
         IN  IF IsExc(r.val) THEN r
             ELSE IF r.val.cls # "NoneType"
                     /\ (TypeName(r.val) = RETURN_VALUE_OBJ
                         \/ TypeName(r.val) = ERROR_OBJ)
             THEN r
             ELSE BlockLoop(stmts, i + 1, r.val, e, r.envs)

\* A block evaluated in a new environment enclosed by the current one.
evalBlockStatement_Enclosed(block, e, h) ==
    BlockLoop(block.Statements, 1, Unbound, Len(h) + 1, NewEnclosedEnvironment(h, e))

evalBlockStatement(block, e, h) == BlockLoop(block.Statements, 1, Unbound, e, h)

\* `not ie.Consequence` and `not ie.Alternative` are false of every block
\* node (a node object is true, as every object is), so those two returns
\* of NULL are never taken.
evalIfExpression(ie, e, h) ==
    LET condition == Eval(ie.Condition, e, h)
    IN  IF IsExc(condition.val) THEN condition
        ELSE IF ~Truthy(condition.val) THEN Out(NULL, condition.envs)
        ELSE IF isError(condition.val) THEN condition
        ELSE IF isTruthy(condition.val)
        THEN LET evaluated == Eval(ie.Consequence, e, condition.envs)
             IN  IF IsExc(evaluated.val) THEN evaluated
                 ELSE IF ~Truthy(evaluated.val) THEN Out(NULL, evaluated.envs)
                 ELSE evaluated
        ELSE IF ie.Alternative.node # "None"
        THEN LET evaluated == Eval(ie.Alternative, e, condition.envs)
             IN  IF IsExc(evaluated.val) THEN evaluated
                 ELSE IF ~Truthy(evaluated.val) THEN Out(NULL, evaluated.envs)
                 ELSE evaluated
        ELSE Out(NULL, condition.envs)

\* The for loop of evalExpressions from expression i on: the list returned
\* (val), or the exception raised (exc), and the heap left.
ExpressionsLoop(exps, i, res, e, h) ==
    IF i > Len(exps) THEN [exc |-> None, val |-> res, envs |-> h]
    ELSE LET evaluated == Eval(exps[i], e, h)
         IN  IF IsExc(evaluated.val)
             THEN [exc |-> evaluated.val, val |-> <<>>, envs |-> evaluated.envs]
             ELSE IF Truthy(evaluated.val)
             THEN IF isError(evaluated.val)
                  THEN [exc |-> None, val |-> <<AnyObject(evaluated.val)>>,
                        envs |-> evaluated.envs]
                  ELSE ExpressionsLoop(exps, i + 1, Append(res, evaluated.val),
                                       e, evaluated.envs)
             ELSE ExpressionsLoop(exps, i + 1, res, e, evaluated.envs)

evalExpressions(exps, e, h) == ExpressionsLoop(exps, 1, <<>>, e, h)

applyFunction(fn, args, h) ==
    LET extended == extendFunctionEnv(fn, args, h)
    IN  IF IsExc(extended.exc) THEN Out(extended.exc, extended.envs)
        ELSE LET evaluated == Eval(fn.Body, extended.env, extended.envs)
             IN  IF IsExc(evaluated.val) THEN evaluated
                 ELSE IF evaluated.val.cls # "NoneType"
                 THEN Out(unwrapReturnValue(evaluated.val), evaluated.envs)
                 ELSE Out(None, evaluated.envs)

Eval_CallExpression(node, e, h) ==
    LET function == Eval(node.Function, e, h)
    IN  IF IsExc(function.val) THEN function
        ELSE IF Truthy(function.val) /\ isError(function.val) THEN function
        ELSE LET args == evalExpressions(node.Arguments, e, function.envs)
             IN  IF IsExc(args.exc) THEN Out(args.exc, args.envs)
                 ELSE IF Len(args.val) = 1 /\ isError(args.val[1])
                 THEN Out(args.val[1], args.envs)
                 ELSE IF ~Truthy(function.val) THEN Out(None, args.envs)
                 ELSE applyFunction(function.val, args.val, args.envs)

Eval(node, e, h) ==
    CASE node.node = "ExpressionStatement" -> Eval(node.ExpressionValue, e, h)
      [] node.node = "IntegerLiteral" -> Out(Integer(Num(node.Value)), h)
      [] node.node = "Boolean" -> Out(nativeBoolToBooleanObject(node.Value), h)
      [] node.node = "PrefixExpression" -> Eval_PrefixExpression(node, e, h)
      [] node.node = "InfixExpression" -> Eval_InfixExpression(node, e, h)
      [] node.node = "BlockStatement" -> evalBlockStatement(node, e, h)
      [] node.node = "IfExpression" -> evalIfExpression(node, e, h)
      [] node.node = "ReturnStatement" -> Eval_ReturnStatement(node, e, h)
      [] node.node = "LetStatement" -> Eval_LetStatement(node, e, h)
      [] node.node = "Identifier" -> evalIdentifier(node, e, h)
      [] node.node = "FunctionLiteral" -> Eval_FunctionLiteral(node, e, h)
      [] node.node = "CallExpression" -> Eval_CallExpression(node, e, h)
      [] OTHER -> Out(None, h)

(***************************************************************************)
(* The programs evaluated.  Statements and expressions are written as the  *)
(* parser builds them; the source text is in the comment beside each.      *)
(***************************************************************************)
Lit(n) == IntegerLiteral(n)
Stmt(e) == ExpressionStatement(e)
Block1(s) == BlockStatement(<<s>>)

IfTrueReturn1 ==                       \* if (true) { return 1; }
    IfExpression(BooleanLiteral(TRUE), Block1(ReturnStatement(Lit(1))), NoNode)
IfFalse1 ==                            \* if (false) { 1 }
    IfExpression(BooleanLiteral(FALSE), Block1(Stmt(Lit(1))), NoNode)
FnIdentity ==                          \* fn(x) { x }
    FunctionLiteral(<<"x">>, Block1(Stmt(Identifier("x"))))
FnLetOnly ==                           \* fn() { let a = 1; }
    FunctionLiteral(<<>>, Block1(LetStatement("a", Lit(1))))
CallLetOnly == CallExpression(FnLetOnly, <<>>)     \* fn() { let a = 1; }()
NestedReturn10 ==     \* if (10 > 1) { if (10 > 1) { return 10; } return 1; }
    IfExpression(InfixExpression(Lit(10), ">", Lit(1)),
        BlockStatement(<<
            Stmt(IfExpression(InfixExpression(Lit(10), ">", Lit(1)),
                              Block1(ReturnStatement(Lit(10))), NoNode)),
            ReturnStatement(Lit(1))>>),
        NoNode)

\* The statements a program is a sequence of.
StmtPool == <<
    Stmt(Lit(5)),                                        \* 5;
    Stmt(Identifier("foobar")),                          \* foobar;
    ReturnStatement(Lit(10)),                            \* return 10;
    LetStatement("x", Lit(10)),                          \* let x = 10;
    Stmt(Identifier("x")),                               \* x;
    LetStatement("newAdder",           \* let newAdder = fn(x) { fn(y) { x + y } };
        FunctionLiteral(<<"x">>, Block1(Stmt(
            FunctionLiteral(<<"y">>, Block1(Stmt(
                InfixExpression(Identifier("x"), "+", Identifier("y"))))))))),
    LetStatement("addTwo",                               \* let addTwo = newAdder(2);
        CallExpression(Identifier("newAdder"), <<Lit(2)>>)),
    Stmt(CallExpression(Identifier("addTwo"), <<Lit(2)>>))       \* addTwo(2);
>>

FnBlockLet ==                          \* fn() { if (true) { let c = 1; } c }
    FunctionLiteral(<<>>, BlockStatement(<<
        Stmt(IfExpression(BooleanLiteral(TRUE),
                          Block1(LetStatement("c", Lit(1))), NoNode)),
        Stmt(Identifier("c"))>>))

\* Statements that are the first of a program of one or two statements.
Singles == <<
    ReturnStatement(IfTrueReturn1),          \* return if (true) { return 1; };
    Stmt(NestedReturn10),
    Stmt(IfExpression(BooleanLiteral(TRUE), BlockStatement(<<>>), NoNode)), \* if (true) { }
    Stmt(CallExpression(FnBlockLet, <<>>))
>>

\* The operators of an infix expression, and its operands.
Operators == {"+", "-", "*", "/", "<", ">", "==", "!="}

Operands == <<
    Lit(0), Lit(2), Lit(7), PrefixExpression("-", Lit(7)),
    BooleanLiteral(TRUE), BooleanLiteral(FALSE),
    IfFalse1,                          \* evaluates to NULL
    FnIdentity,                        \* evaluates to a Function
    Identifier("foobar"),              \* evaluates to an Error
    PrefixExpression("-", BooleanLiteral(TRUE)),         \* to another Error
    IfTrueReturn1,                     \* evaluates to a ReturnValue
    CallLetOnly                        \* evaluates to None
>>

\* The callees of a call expression, and its arguments.
Callees == <<
    FnIdentity,
    FunctionLiteral(<<"x", "y">>,                        \* fn(x, y) { x + y }
        Block1(Stmt(InfixExpression(Identifier("x"), "+", Identifier("y"))))),
    FunctionLiteral(<<>>, BlockStatement(<<>>)),         \* fn() { }
    FunctionLiteral(<<>>, Block1(Stmt(NestedReturn10))),
    FunctionLiteral(<<>>,              \* fn() { return if (true) { return 1; }; }
        Block1(ReturnStatement(IfTrueReturn1))),
    FunctionLiteral(<<>>,        \* fn() { let a = if (true) { return 1; }; 2 }
        BlockStatement(<<LetStatement("a", IfTrueReturn1), Stmt(Lit(2))>>)),
    Lit(5), BooleanLiteral(TRUE), IfFalse1,              \* not callable
    Identifier("foobar")
>>

Arguments == <<Lit(1), Lit(2), Identifier("foobar"), CallLetOnly>>

MaxArgs == 2

\* The conditions of an if expression, and its two branches: each branch
\* binds a name of its own, so that the environment tells which one ran.
Conditions == <<
    Lit(0), Lit(1),
    BooleanLiteral(TRUE), BooleanLiteral(FALSE),
    InfixExpression(Lit(1), "<", Lit(2)),                \* 1 < 2
    InfixExpression(Lit(1), ">", Lit(2)),                \* 1 > 2
    IfFalse1,                          \* evaluates to NULL
    FnIdentity,                        \* evaluates to a Function
    IfTrueReturn1,                     \* evaluates to a ReturnValue
    Identifier("foobar"),              \* evaluates to an Error
    CallLetOnly                        \* evaluates to None
>>

Consequence10 ==                       \* { let c = 1; 10 }
    BlockStatement(<<LetStatement("c", Lit(1)), Stmt(Lit(10))>>)
Alternative20 ==                       \* { let a = 2; 20 }
    BlockStatement(<<LetStatement("a", Lit(2)), Stmt(Lit(20))>>)
Alternatives == <<NoNode, Alternative20>>

\* The right-hand sides of a let statement, and what may precede it.
LetValues == <<
    Lit(5), BooleanLiteral(TRUE),
    IfFalse1,                          \* evaluates to NULL
    FnIdentity,                        \* evaluates to a Function
    CallExpression(FnIdentity, <<Lit(1)>>),              \* fn(x) { x }(1)
    IfTrueReturn1,                     \* evaluates to a ReturnValue
    Identifier("foobar"),              \* evaluates to an Error
    CallExpression(FnIdentity, <<Identifier("foobar")>>),    \* fn(x) { x }(foobar)
    CallLetOnly                        \* evaluates to None
>>

LetPrefixes == << <<>>, <<LetStatement("x", Lit(10))>> >>

\* What may follow an if expression: references to the names its branches
\* bind.
BlockTails == << <<>>, <<Stmt(Lit(5))>>, <<Stmt(Identifier("c"))>>,
                 <<Stmt(Identifier("a"))>> >>

\* What may follow the first statement of a generated program.
Tails == << <<>>, <<Stmt(Lit(5))>>, <<LetStatement("x", Lit(10))>> >>

(***************************************************************************)
(* evaluator.py, evalProgram: the state machine.                           *)
(*   program  program.Statements                                           *)
(*   envs     the heap of environments; env, the root, is envs[1]          *)
(*   idx      the number of iterations of the for loop begun               *)
(*   result   the local `result`, Unbound until first assigned             *)
(*   status   "running", "returned" or "raised"                            *)
(*   retval   what Eval(program, env) returned, or the exception raised    *)
(***************************************************************************)
Start(stmts) ==
    /\ program = stmts
    /\ envs = <<NewEnvironment>>
    /\ idx = 0
    /\ result = Unbound
    /\ status = "running"
    /\ retval = Unbound

InitSequence ==
    \E n \in 0..MaxStmts : \E ks \in [1..n -> 1..Len(StmtPool)] :
        Start([i \in 1..n |-> StmtPool[ks[i]]])

InitInfix ==
    \E op \in Operators : \E l, r \in 1..Len(Operands) : \E t \in 1..Len(Tails) :
        Start(<<Stmt(InfixExpression(Operands[l], op, Operands[r]))>> \o Tails[t])

InitCall ==
    \E c \in 1..Len(Callees) : \E n \in 0..MaxArgs :
    \E as \in [1..n -> 1..Len(Arguments)] : \E t \in 1..Len(Tails) :
        Start(<<Stmt(CallExpression(Callees[c], [i \in 1..n |-> Arguments[as[i]]]))>>
              \o Tails[t])

InitSingle ==
    \E s \in 1..Len(Singles) : \E t \in 1..Len(Tails) :
        Start(<<Singles[s]>> \o Tails[t])

InitIf ==
    \E c \in 1..Len(Conditions) : \E a \in 1..Len(Alternatives) :
    \E t \in 1..Len(BlockTails) :
        Start(<<Stmt(IfExpression(Conditions[c], Consequence10, Alternatives[a]))>>
              \o BlockTails[t])

\* let x = <value>; x;  alone or after let x = 10;
InitLet ==
    \E v \in 1..Len(LetValues) : \E p \in 1..Len(LetPrefixes) :
        Start(LetPrefixes[p]
              \o <<LetStatement("x", LetValues[v]), Stmt(Identifier("x"))>>)

Init == InitSequence \/ InitInfix \/ InitCall \/ InitSingle \/ InitIf \/ InitLet

\* A loop body that does not look for a ReturnValue.
Outcome_NoReturnTest(res) ==
    IF IsExc(res) THEN "raise"
    ELSE IF res.cls = "Error" THEN "return error"
    ELSE "continue"

\* How the loop body of evalProgram goes on after result = Eval(statement, env).
Outcome(res) ==
    IF IsExc(res) THEN "raise"
    ELSE IF res.cls = "ReturnValue" THEN "return value"
    ELSE IF res.cls = "Error" THEN "return error"
    ELSE "continue"

Running == status = "running" /\ idx < Len(program)

Step == Eval(program[idx + 1], 1, envs)

LoopReturnValue ==
    /\ Running
    /\ Outcome(Step.val) = "return value"
    /\ idx' = idx + 1
    /\ envs' = Step.envs
    /\ result' = Step.val
    /\ status' = "returned"
    /\ retval' = Step.val.Value
    /\ UNCHANGED program

LoopReturnError ==
    /\ Running
    /\ Outcome(Step.val) = "return error"
    /\ idx' = idx + 1
    /\ envs' = Step.envs
    /\ result' = Step.val
    /\ status' = "returned"
    /\ retval' = Step.val
    /\ UNCHANGED program

LoopContinue ==
    /\ Running
    /\ Outcome(Step.val) = "continue"
    /\ idx' = idx + 1
    /\ envs' = Step.envs
    /\ result' = Step.val
    /\ UNCHANGED <<program, status, retval>>

LoopRaise ==
    /\ Running
    /\ Outcome(Step.val) = "raise"
    /\ idx' = idx + 1
    /\ envs' = Step.envs
    /\ status' = "raised"
    /\ retval' = Step.val
    /\ UNCHANGED <<program, result>>

\* return result, after the last statement.
LoopEnd ==
    /\ status = "running"
    /\ idx = Len(program)
    /\ IF result.cls = "Unbound"
       THEN status' = "raised" /\ retval' = Exception("UnboundLocalError")
       ELSE status' = "returned" /\ retval' = result
    /\ UNCHANGED <<program, envs, idx, result>>

evalProgram ==
    \/ LoopReturnValue
    \/ LoopReturnError
    \/ LoopContinue
    \/ LoopRaise
    \/ LoopEnd

Next == evalProgram

Spec == Init /\ [][Next]_vars

(***************************************************************************)
(* What the properties below read off a state.                             *)
(***************************************************************************)
\* The statement the last iteration evaluated, once there is one.
Evaluated == idx >= 1
Last == program[idx]

\* result holds the value of Last (it keeps an older value when Last raised).
Assigned == Evaluated /\ status # "raised"

LastIsCall ==
    /\ Evaluated
    /\ Last.node = "ExpressionStatement"
    /\ Last.ExpressionValue.node = "CallExpression"

LastIsInfix ==
    /\ Evaluated
    /\ Last.node = "ExpressionStatement"
    /\ Last.ExpressionValue.node = "InfixExpression"

\* The message of an Error, looked up through the AnyObject wrappers.
RECURSIVE MessageOf(_)
MessageOf(obj) == IF obj.cls = "AnyObject" THEN MessageOf(obj.Value) ELSE obj.Message

\* The heap after the first k statements of the program were evaluated in
\* order from the empty root environment.
RECURSIVE HeapAfter(_)
HeapAfter(k) ==
    IF k = 0 THEN <<NewEnvironment>>
    ELSE Eval(program[k], 1, HeapAfter(k - 1)).envs

\* C1: Error dominance.  Once the evaluation of a statement has yielded an
\* Error (a value whose type tag is ERROR) with message m, the program has
\* returned an Error with message m and evaluates no later statement.
C1_ErrorDominance ==
    (Assigned /\ isError(result)) =>
        /\ status = "returned"
        /\ retval.cls = "Error"
        /\ retval.Message = MessageOf(result)

\* C2: At the top level the first statement that yields a ReturnValue ends
\* the evaluation: the program has returned the inner value of that
\* ReturnValue, and the heap is the one that statement left, so that no
\* later statement has been evaluated.
C2_TopLevelReturn ==
    (Assigned /\ result.cls = "ReturnValue") =>
        /\ status = "returned"
        /\ retval = result.Value
        /\ envs = HeapAfter(idx)
        /\ \A k \in 1..(idx - 1) :
              Outcome(Eval(program[k], 1, HeapAfter(k - 1)).val) = "continue"

\* C2's case: a return followed by a let statement that was never evaluated.
C2_Witness ==
    /\ Assigned
    /\ result.cls = "ReturnValue"
    /\ status = "returned"
    /\ idx < Len(program)
    /\ program[idx + 1].node = "LetStatement"
    /\ program[idx + 1].Name = "x"
    /\ "x" \notin DOMAIN envs[1].store

\* C3: Return unwinding.  A return executed in the body of a function is
\* unwrapped at the call site: a call expression never yields a
\* ReturnValue, so the caller goes on with the statements after the call.
C3_ReturnUnwinding ==
    (LastIsCall /\ Assigned) => result.cls # "ReturnValue"

\* C4: A ReturnValue never nests: no ReturnValue has a ReturnValue as its
\* inner Value.
C4_ReturnValueNeverNests ==
    (Assigned /\ result.cls = "ReturnValue") => result.Value.cls # "ReturnValue"

\* The values of the operands of the infix expression last evaluated (the
\* operands drawn read no binding, so any heap gives their values).
LeftValue == Eval(Last.ExpressionValue.Left, 1, envs).val
RightValue == Eval(Last.ExpressionValue.Right, 1, envs).val
LastOperator == Last.ExpressionValue.Operator

IsValue(v) == ~IsExc(v) /\ Truthy(v) /\ ~isError(v)

\* The arguments of the call last evaluated are integer literals, so that as
\* many values are passed as there are argument expressions.
LiteralArguments ==
    \A i \in 1..Len(Last.ExpressionValue.Arguments) :
        Last.ExpressionValue.Arguments[i].node = "IntegerLiteral"

\* The statement last evaluated is addTwo(2), a call of the name addTwo.
LastCallsAddTwo ==
    /\ LastIsCall
    /\ Last.ExpressionValue.Function.node = "Identifier"
    /\ Last.ExpressionValue.Function.Value = "addTwo"

\* The function values bound in some environment of the heap.
BoundFunctions ==
    {envs[e].store[n] : <<e, n>> \in
        {p \in (1..Len(envs)) \X {"x", "y", "a", "newAdder", "addTwo"} :
            /\ p[2] \in DOMAIN envs[p[1]].store
            /\ envs[p[1]].store[p[2]].cls = "Function"}}

\* C5: Closure capture.  A call of a Function runs in a fresh environment
\* whose outer is the environment the Function captured, so that the free
\* names of the body are those of the captured environment; and what was
\* captured is the environment in which the literal was evaluated: addTwo,
\* made by newAdder(2), adds the 2 bound to x there, whatever the root
\* environment of the call site binds x to.
C5_ClosureCapture ==
    /\ \A f \in BoundFunctions :
          LET args == [i \in 1..Len(f.Parameters) |-> Integer(Num(1))]
              ext == extendFunctionEnv(f, args, envs)
          IN  /\ ext.env = Len(envs) + 1
              /\ ext.envs[ext.env].outer = f.Env
              /\ \A n \in {"x", "y", "a"} :
                    n \notin {f.Parameters[i] : i \in 1..Len(f.Parameters)} =>
                        Get(ext.envs, ext.env, n) = Get(envs, f.Env, n)
    /\ (Assigned /\ LastCallsAddTwo /\ "addTwo" \in DOMAIN envs[1].store) =>
          result = Integer(Num(4))

\* C5's case: addTwo(2) has yielded 4 where the call site binds x to 10.
C5_Witness ==
    /\ Assigned
    /\ LastCallsAddTwo
    /\ "x" \in DOMAIN envs[1].store
    /\ envs[1].store["x"] = Integer(Num(10))
    /\ result = Integer(Num(4))

\* C6: A program with no statements returns None, and no program raises
\* the exception of an empty statement list (an empty function body or
\* if-branch completes normally as well).
C6_EmptyCompletes ==
    /\ (Len(program) = 0 /\ status # "running") =>
          (status = "returned" /\ retval = None)
    /\ status = "raised" => retval # Exception("UnboundLocalError")

\* C7: A call of a function literal of N parameters with M # N argument
\* values yields the Error "wrong number of arguments: want=N got=M" and
\* raises no exception.
C7_ArityChecked ==
    (/\ LastIsCall
     /\ Last.ExpressionValue.Function.node = "FunctionLiteral"
     /\ LiteralArguments
     /\ Len(Last.ExpressionValue.Arguments)
          # Len(Last.ExpressionValue.Function.Parameters)) =>
        /\ status # "raised"
        /\ result = Error("wrong number of arguments: want="
                \o ToString(Len(Last.ExpressionValue.Function.Parameters))
                \o " got=" \o ToString(Len(Last.ExpressionValue.Arguments)))

\* C8: A call whose callee is an Integer or a Boolean yields the Error
\* "not a function: <TYPE>" and raises no exception.
C8_NotAFunction ==
    (/\ LastIsCall
     /\ Last.ExpressionValue.Function.node \in {"IntegerLiteral", "Boolean"}
     /\ LiteralArguments) =>
        /\ status # "raised"
        /\ result = Error("not a function: "
                \o TypeName(Eval(Last.ExpressionValue.Function, 1, envs).val))

\* C9: The quotient of two Integers whose right operand is 0 is the Error
\* "division by zero", which the program returns; no exception is raised.
C9_DivisionByZero ==
    (/\ LastIsInfix
     /\ LastOperator = "/"
     /\ IsValue(LeftValue) /\ TypeName(LeftValue) = INTEGER_OBJ
     /\ IsValue(RightValue) /\ TypeName(RightValue) = INTEGER_OBJ
     /\ IsZero(RightValue.Value)) =>
        /\ status = "returned"
        /\ retval = Error("division by zero")

\* The operands of the infix expression last evaluated are values of
\* different type tags.
MixedOperands ==
    /\ LastIsInfix
    /\ IsValue(LeftValue)
    /\ IsValue(RightValue)
    /\ TypeName(LeftValue) # TypeName(RightValue)

TypeMismatch ==
    Error("type mismatch: " \o TypeName(LeftValue) \o " " \o LastOperator
          \o " " \o TypeName(RightValue))

\* C10 as stated: operands of different type tags yield the Error
\* "type mismatch: <L> <op> <R>" for every operator, == and != included.
C10_MismatchForEveryOperator ==
    MixedOperands => (Assigned /\ result = TypeMismatch)

\* C10 as amended: operands of different type tags yield the type mismatch
\* Error for every operator but == and !=; for these they yield a Boolean,
\* false for == and true for !=.  On two Booleans or two Nulls == and !=
\* yield the Boolean that says whether the operands are the same singleton.
C10_MismatchButEquality ==
    /\ (MixedOperands /\ LastOperator \notin {"==", "!="}) =>
          (Assigned /\ result = TypeMismatch)
    /\ (MixedOperands /\ LastOperator = "==") => (Assigned /\ result = FalseObj)
    /\ (MixedOperands /\ LastOperator = "!=") => (Assigned /\ result = TrueObj)
    /\ (/\ LastIsInfix
        /\ IsValue(LeftValue) /\ IsValue(RightValue)
        /\ TypeName(LeftValue) = TypeName(RightValue)
        /\ TypeName(LeftValue) \in {BOOLEAN_OBJ, NULL_OBJ}
        /\ LastOperator \in {"==", "!="}) =>
          /\ Assigned
          /\ result = nativeBoolToBooleanObject(
                 (LeftValue = RightValue) <=> (LastOperator = "=="))

\* C10's case: an Integer compared with a Boolean by == has yielded false.
C10_Witness ==
    /\ MixedOperands
    /\ LastOperator = "=="
    /\ TypeName(LeftValue) = INTEGER_OBJ
    /\ TypeName(RightValue) = BOOLEAN_OBJ
    /\ Assigned
    /\ result = FalseObj

\* The call last evaluated has a function literal as its callee and the
\* undefined name foobar among its arguments.
LastCallPassesFoobar ==
    /\ LastIsCall
    /\ Last.ExpressionValue.Function.node = "FunctionLiteral"
    /\ \E i \in 1..Len(Last.ExpressionValue.Arguments) :
          /\ Last.ExpressionValue.Arguments[i].node = "Identifier"
          /\ Last.ExpressionValue.Arguments[i].Value = "foobar"

\* C11: A call one of whose arguments evaluates to an Error yields that
\* Error itself, an object of class Error, and the program returns it as
\* its result: the callee is not applied and no later statement is
\* evaluated.
C11_ArgumentErrorIsResult ==
    LastCallPassesFoobar =>
        /\ Assigned
        /\ result = Error("identifier not found: foobar")
        /\ status = "returned"
        /\ retval = result

\* The statement last evaluated is one of the if expressions drawn, whose
\* consequence binds c and yields 10 and whose alternative, if there is
\* one, binds a and yields 20.
DrawnIf(stmt) ==
    /\ stmt.node = "ExpressionStatement"
    /\ stmt.ExpressionValue.node = "IfExpression"
    /\ Len(stmt.ExpressionValue.Consequence.Statements) = 2
    /\ stmt.ExpressionValue.Consequence.Statements[1].node = "LetStatement"
    /\ stmt.ExpressionValue.Consequence.Statements[1].Name = "c"

LastIsIf == Evaluated /\ DrawnIf(Last)

\* The value of its condition (the conditions drawn read no binding).
ConditionValue == Eval(Last.ExpressionValue.Condition, 1, <<NewEnvironment>>).val

\* false and null, and no other value.
Falsy(v) == v.cls = "Null" \/ (v.cls = "Boolean" /\ v.Value = FALSE)

Bound(name) == name \in DOMAIN envs[1].store

\* C12: When the condition of an if expression yields a value that is no
\* Error, exactly one branch is chosen.  For every value but false and null
\* (the Integer 0 included) the consequence alone is evaluated and gives the
\* value; for false and null the alternative alone is evaluated and gives
\* the value if there is one, and if there is none the value is the Null
\* singleton and no branch is evaluated.
C12_IfChoosesOneBranch ==
    (LastIsIf /\ IsValue(ConditionValue)) =>
        /\ Assigned
        /\ ~Falsy(ConditionValue) =>
              /\ result = Integer(Num(10))
              /\ Bound("c") /\ ~Bound("a")
        /\ (Falsy(ConditionValue) /\ Last.ExpressionValue.Alternative.node # "None") =>
              /\ result = Integer(Num(20))
              /\ Bound("a") /\ ~Bound("c")
        /\ (Falsy(ConditionValue) /\ Last.ExpressionValue.Alternative.node = "None") =>
              /\ result = NULL
              /\ ~Bound("a") /\ ~Bound("c")

\* C12's case: if (0) { let c = 1; 10 } else { let a = 2; 20 } has yielded
\* 10 and bound c alone.
C12_Witness ==
    /\ LastIsIf
    /\ ConditionValue = Integer(Num(0))
    /\ Last.ExpressionValue.Alternative.node # "None"
    /\ Assigned
    /\ result = Integer(Num(10))
    /\ Bound("c") /\ ~Bound("a")

\* The quotient of a by b # 0 truncated toward zero.
TruncatedQuotient(a, b) ==
    IF (a < 0) = (b < 0) THEN Abs(a) \div Abs(b) ELSE -(Abs(a) \div Abs(b))

\* The operands of the infix expression last evaluated are Integers.
IntegerOperands ==
    /\ LastIsInfix
    /\ IsValue(LeftValue) /\ LeftValue.cls = "Integer"
    /\ IsValue(RightValue) /\ RightValue.cls = "Integer"

\* C13: On Integers a and b the operators +, - and * yield the Integer of
\* the exact sum, difference and product, and for b # 0 the operator /
\* yields the Integer of the quotient truncated toward zero (7 / 2 is 3 and
\* -7 / 2 is -3).
C13_IntegerArithmetic ==
    IntegerOperands =>
        LET a == LeftValue.Value[1]
            b == RightValue.Value[1]
        IN  /\ LastOperator = "+" => (Assigned /\ result = Integer(Num(a + b)))
            /\ LastOperator = "-" => (Assigned /\ result = Integer(Num(a - b)))
            /\ LastOperator = "*" => (Assigned /\ result = Integer(Num(a * b)))
            /\ (LastOperator = "/" /\ b # 0) =>
                  (Assigned /\ result = Integer(Num(TruncatedQuotient(a, b))))

\* The value of the i-th argument expression of the call last evaluated (the
\* arguments drawn read no binding), None when it yields no value.
ArgumentValue(i) == Eval(Last.ExpressionValue.Arguments[i], 1, <<NewEnvironment>>).val

\* The call last evaluated passes as many argument expressions as its
\* function literal has parameters, and none of them yields an Error.
LastCallMatchesArity ==
    /\ LastIsCall
    /\ Last.ExpressionValue.Function.node = "FunctionLiteral"
    /\ Len(Last.ExpressionValue.Arguments)
          = Len(Last.ExpressionValue.Function.Parameters)
    /\ \A i \in 1..Len(Last.ExpressionValue.Arguments) :
          ~IsExc(ArgumentValue(i)) /\ ~isError(ArgumentValue(i))

\* The environment the call last evaluated made: the first one allocated
\* after those its argument expressions allocated.
CallEnvironment ==
    Len(evalExpressions(Last.ExpressionValue.Arguments, 1, HeapAfter(idx - 1)).envs) + 1

\* C14: Positional binding.  A call of a function of n parameters with n
\* argument expressions finds an argument for every parameter (no index
\* runs past the arguments) and binds, in the environment it makes, the
\* i-th parameter to the value of the i-th argument expression; an argument
\* expression that yields no value does not shift the later arguments onto
\* earlier parameters.
C14_PositionalBinding ==
    LastCallMatchesArity =>
        /\ ~(status = "raised" /\ retval.name = "IndexError")
        /\ CallEnvironment <= Len(envs)
        /\ \A i \in 1..Len(Last.ExpressionValue.Arguments) :
              Truthy(ArgumentValue(i)) =>
                  LET p == Last.ExpressionValue.Function.Parameters[i]
                  IN  /\ p \in DOMAIN envs[CallEnvironment].store
                      /\ envs[CallEnvironment].store[p] = ArgumentValue(i)

\* The heap the left operand of the infix expression last evaluated leaves,
\* and the one the right operand leaves after it.
HeapAfterLeft == Eval(Last.ExpressionValue.Left, 1, HeapAfter(idx - 1)).envs
HeapAfterRight == Eval(Last.ExpressionValue.Right, 1, HeapAfterLeft).envs

Errs(v) == ~IsExc(v) /\ Truthy(v) /\ isError(v)

\* The left operand yields an Error: it is the result, and the right operand
\* was not evaluated (the heap is the one the left operand left).
LeftErrorWins ==
    (LastIsInfix /\ Errs(LeftValue)) =>
        /\ Assigned
        /\ result.cls = LeftValue.cls
        /\ result = LeftValue
        /\ envs = HeapAfterLeft

\* C15 as stated: the left operand is evaluated first and its Error is the
\* result, the right operand not being evaluated; whenever the left operand
\* yields no Error and the right operand yields one, the right operand's
\* Error is the result.
C15_FirstErrorWins ==
    /\ LeftErrorWins
    /\ (LastIsInfix /\ ~IsExc(LeftValue) /\ ~Errs(LeftValue) /\ Errs(RightValue)) =>
          /\ Assigned
          /\ result.cls = RightValue.cls
          /\ result = RightValue

\* C15 as amended: the left operand is evaluated first and its Error is the
\* result, the right operand not being evaluated; when the left operand
\* yields a value that is no Error, the right operand is evaluated after it
\* and its Error, if it yields one, is the result; when the left operand
\* yields no value, the right operand is not evaluated either and the
\* expression yields no value.
C15_FirstErrorOrAbsenceWins ==
    /\ LeftErrorWins
    /\ (LastIsInfix /\ IsValue(LeftValue)) =>
          /\ envs = HeapAfterRight
          /\ Errs(RightValue) =>
                /\ Assigned
                /\ result.cls = RightValue.cls
                /\ result = RightValue
    /\ (LastIsInfix /\ ~IsExc(LeftValue) /\ ~Truthy(LeftValue)) =>
          /\ Assigned
          /\ result = None
          /\ envs = HeapAfterLeft

\* C15's case: foobar + fn() { let a = 1; }() has yielded the Error of
\* foobar and made no environment for the call on the right.
C15_Witness ==
    /\ LastIsInfix
    /\ Errs(LeftValue)
    /\ Last.ExpressionValue.Right.node = "CallExpression"
    /\ Len(HeapAfterRight) > Len(HeapAfterLeft)
    /\ Assigned
    /\ result.cls = "Error"
    /\ envs = HeapAfterLeft

\* The k-th statement of the program is a let statement that was evaluated,
\* and what its right-hand side yields in the heap the statements before it
\* left.
IsLet(k) == k >= 1 /\ k <= idx /\ program[k].node = "LetStatement"
Rhs(k) == Eval(program[k].Value, 1, HeapAfter(k - 1))

\* A let statement whose right-hand side yields an Error yields that very
\* object and leaves the environment as it was.
LetErrorSurfaces ==
    (IsLet(idx) /\ Errs(Rhs(idx).val)) =>
        /\ Assigned
        /\ result.cls = Rhs(idx).val.cls
        /\ result = Rhs(idx).val
        /\ envs[1] = HeapAfter(idx - 1)[1]

\* A let statement whose right-hand side yields a value binds the name to
\* it in the current environment and in no other, and yields no value.
LetBindsValue ==
    (IsLet(idx) /\ IsValue(Rhs(idx).val)) =>
        /\ Assigned
        /\ result = None
        /\ envs = Set(Rhs(idx).envs, 1, Last.Name, Rhs(idx).val)

\* A reference to the name right after the let statement yields the value
\* bound.
LaterReferenceYieldsValue ==
    (/\ IsLet(idx - 1)
     /\ IsValue(Rhs(idx - 1).val)
     /\ Last.node = "ExpressionStatement"
     /\ Last.ExpressionValue.node = "Identifier"
     /\ Last.ExpressionValue.Value = program[idx - 1].Name) =>
        /\ Assigned
        /\ result.cls = Rhs(idx - 1).val.cls
        /\ result = Rhs(idx - 1).val

\* C16 as stated: a let statement whose right-hand side yields an Error
\* yields that Error and leaves the environment unchanged; in every other
\* case it yields no value and the name is bound in the current
\* environment, to the value of the right-hand side where there is one, so
\* that a later reference to the name yields it.
C16_LetBindsUnlessError ==
    /\ LetErrorSurfaces
    /\ LetBindsValue
    /\ LaterReferenceYieldsValue
    /\ (IsLet(idx) /\ ~IsExc(Rhs(idx).val) /\ ~Errs(Rhs(idx).val)) =>
          /\ Assigned
          /\ result = None
          /\ Last.Name \in DOMAIN envs[1].store

\* C16 as amended: as stated where the right-hand side yields an Error or a
\* value; where it yields no value the statement yields no value and binds
\* nothing: the name stays unbound, or bound to what it was bound to.
C16_LetBindsValueOnly ==
    /\ LetErrorSurfaces
    /\ LetBindsValue
    /\ LaterReferenceYieldsValue
    /\ (IsLet(idx) /\ ~IsExc(Rhs(idx).val) /\ ~Truthy(Rhs(idx).val)) =>
          /\ Assigned
          /\ result = None
          /\ envs = Rhs(idx).envs
          /\ envs[1] = HeapAfter(idx - 1)[1]

\* C16's case: let x = 10; let x = foobar; has yielded the Error of foobar
\* and x is still bound to 10.
C16_Witness ==
    /\ IsLet(idx)
    /\ idx >= 2
    /\ Errs(Rhs(idx).val)
    /\ Assigned
    /\ result.cls = "Error"
    /\ "x" \in DOMAIN envs[1].store
    /\ envs[1].store["x"] = Integer(Num(10))
    /\ Last.Name = "x"

\* A call expression occurs in the node.
RECURSIVE HasCall(_)
HasCall(n) ==
    CASE n.node = "CallExpression" -> TRUE
      [] n.node = "ExpressionStatement" -> HasCall(n.ExpressionValue)
      [] n.node = "ReturnStatement" -> HasCall(n.ReturnValue)
      [] n.node = "LetStatement" -> HasCall(n.Value)
      [] n.node = "PrefixExpression" -> HasCall(n.Right)
      [] n.node = "InfixExpression" -> HasCall(n.Left) \/ HasCall(n.Right)
      [] n.node = "BlockStatement" ->
            \E i \in 1..Len(n.Statements) : HasCall(n.Statements[i])
      [] n.node = "IfExpression" ->
            HasCall(n.Condition) \/ HasCall(n.Consequence) \/ HasCall(n.Alternative)
      [] n.node = "FunctionLiteral" -> HasCall(n.Body)
      [] OTHER -> FALSE

\* The statement before the last one is one of the if expressions drawn.
PreviousIsIf == idx >= 2 /\ DrawnIf(program[idx - 1])

PreviousCondition ==
    Eval(program[idx - 1].ExpressionValue.Condition, 1, <<NewEnvironment>>).val

LastRefers(name) ==
    /\ Last.node = "ExpressionStatement"
    /\ Last.ExpressionValue.node = "Identifier"
    /\ Last.ExpressionValue.Value = name

\* The statement last evaluated is fn() { if (true) { let c = 1; } c }().
LastCallsFnBlockLet ==
    /\ LastIsCall
    /\ Last.ExpressionValue.Function.node = "FunctionLiteral"
    /\ Len(Last.ExpressionValue.Function.Parameters) = 0
    /\ Len(Last.ExpressionValue.Function.Body.Statements) = 2
    /\ Last.ExpressionValue.Function.Body.Statements[2].node = "ExpressionStatement"
    /\ Last.ExpressionValue.Function.Body.Statements[2].ExpressionValue.node
          = "Identifier"

\* C17: A block is evaluated in the environment of its surrounding scope and
\* makes no environment.  The branch of an if expression binds its name in
\* the environment of the program, where the statement after the if
\* expression finds it; a let in an if branch of a function body is found by
\* the statement of the body after it, in the one environment the call made
\* and not in the program's; and a statement in which no call occurs leaves
\* the number of environments as it was.
C17_BlocksShareEnvironment ==
    /\ (LastIsIf /\ IsValue(ConditionValue)) =>
          /\ Len(envs) = Len(HeapAfter(idx - 1))
          /\ ~Falsy(ConditionValue) =>
                (Bound("c") /\ envs[1].store["c"] = Integer(Num(1)))
          /\ (Falsy(ConditionValue) /\ Last.ExpressionValue.Alternative.node # "None") =>
                (Bound("a") /\ envs[1].store["a"] = Integer(Num(2)))
    /\ (PreviousIsIf /\ IsValue(PreviousCondition) /\ ~Falsy(PreviousCondition)
        /\ LastRefers("c")) =>
          (Assigned /\ result = Integer(Num(1)))
    /\ (/\ PreviousIsIf /\ IsValue(PreviousCondition) /\ Falsy(PreviousCondition)
        /\ program[idx - 1].ExpressionValue.Alternative.node # "None"
        /\ LastRefers("a")) =>
          (Assigned /\ result = Integer(Num(2)))
    /\ LastCallsFnBlockLet =>
          /\ Assigned
          /\ result = Integer(Num(1))
          /\ Len(envs) = Len(HeapAfter(idx - 1)) + 1
          /\ "c" \in DOMAIN envs[Len(envs)].store
          /\ ~Bound("c")
    /\ (Evaluated /\ ~HasCall(Last)) => Len(envs) = Len(HeapAfter(idx - 1))

\* C17's case: c; after if (true) { let c = 1; 10 } has yielded 1, and the
\* program's environment is the only one.
C17_Witness ==
    /\ PreviousIsIf
    /\ PreviousCondition = TrueObj
    /\ LastRefers("c")
    /\ Assigned
    /\ result = Integer(Num(1))
    /\ Len(envs) = 1

====
